---- MODULE Spec2Model ----
(***************************************************************************)
(* A model of the one-shot analysis scripts of HW_Big_Biostat.  Every      *)
(* script is a command-line program: it reads its arguments and one input  *)
(* (a CSV table, or a dataset object fetched from the UCI repository),     *)
(* computes, writes files into an output directory and exits.  There is    *)
(* one specification per script (SpecOutlier, SpecExport, ...); all share  *)
(* the variables below.                                                    *)
(*                                                                         *)
(* Conventions of the model                                                *)
(*  - A column name is a sequence of tokens, <<"BMI">> or                  *)
(*    <<"BMI", "__iqr_outlier">>; f"{c}__iqr_outlier" is c \o <<suffix>>   *)
(*    and str.endswith is a test of the last token.                        *)
(*  - A DataFrame is a record [n |-> number of rows, col |-> function from *)
(*    column names to sequences of n cells].  The row with index i of      *)
(*    pandas' RangeIndex is position i+1 of the sequences.                 *)
(*  - A numeric cell is a natural number; NaN is the missing cell.         *)
(*  - Quartiles are kept exactly, scaled by 4; the multiplier k is given   *)
(*    in halves (iqr_k2 = 2k), so bounds are kept scaled by 8.             *)
(***************************************************************************)
EXTENDS Integers, Sequences, FiniteSets, TLC

VARIABLES
    script,   \* the script that is run in this behaviour
    pc,       \* position of the run inside main()
    args,     \* the parsed command line and what the run finds on disk
    input,    \* the input: the CSV table (analysis scripts) or the dataset object
    mem,      \* local variables of main()
    files,    \* files written by the run into the output directory: name -> content
    log,      \* lines printed by the run (tags), in order
    status    \* exit status of the process: Running, 0 or 1

vars == <<script, pc, args, input, mem, files, log, status>>

Running == -1
NaN == -1
NoFiles == <<>>
NoMem == [none |-> TRUE]

----------------------------------------------------------------------------
(* Generic helpers                                                         *)

Range(f) == {f[x] : x \in DOMAIN f}

RECURSIVE SeqSum(_)
SeqSum(s) == IF s = <<>> THEN 0 ELSE Head(s) + SeqSum(Tail(s))

RECURSIVE SetToSeq(_)
SetToSeq(S) ==
    IF S = {} THEN <<>>
    ELSE LET x == CHOOSE y \in S : TRUE IN <<x>> \o SetToSeq(S \ {x})

\* insertion of v into the ascending sequence s
RECURSIVE InsertSorted(_, _)
InsertSorted(v, s) ==
    IF s = <<>> THEN <<v>>
    ELSE IF v <= Head(s) THEN <<v>> \o s
    ELSE <<Head(s)>> \o InsertSorted(v, Tail(s))

RECURSIVE SortAsc(_)
SortAsc(s) == IF s = <<>> THEN <<>> ELSE InsertSorted(Head(s), SortAsc(Tail(s)))

\* str.endswith(suffix) on token names
EndsWith(name, suffix) == Len(name) >= 1 /\ name[Len(name)] = suffix

\* InputMissing with a fault: the test left out
InputMissingIgnored(a) == FALSE

\* if not os.path.exists(in_path), the test every analysis script makes before
\* read_csv
InputMissing(a) == ~a.input_exists

----------------------------------------------------------------------------
(* outlier.py                                                              *)

DEFAULT_CONTINUOUS == << <<"BMI">>, <<"MentHlth">>, <<"PhysHlth">> >>

IqrSuffix == "__iqr_outlier"
AnyFlag == <<"__any_outlier_flag">>

\* pd.to_numeric(errors="coerce") followed by the non-missing values, sorted
NonMissing(s) == SelectSeq(s, LAMBDA v : v # NaN)

\* pandas Series.quantile(q), linear interpolation, for q = q4/4, times 4.
\* Only applied to a non-empty sorted sequence.
Quantile4(sorted, q4) ==
    LET n    == Len(sorted)
        pos4 == (n - 1) * q4
        j    == pos4 \div 4
        r    == pos4 % 4
    IN  IF r = 0 THEN 4 * sorted[j + 1]
        ELSE 4 * sorted[j + 1] + r * (sorted[j + 2] - sorted[j + 1])

\* MaskOf with a fault: a value equal to a bound is flagged too
MaskOfInclusive(s, low8, high8) ==
    [i \in 1..Len(s) |-> (8 * s[i] <= low8 \/ 8 * s[i] >= high8) /\ s[i] # NaN]

\* the mask of one column whose bounds (times 8) are low8 and high8
MaskOf(s, low8, high8) ==
    [i \in 1..Len(s) |-> (8 * s[i] < low8 \/ 8 * s[i] > high8) /\ s[i] # NaN]

\* float("inf"): the value --iqr_k inf gives to k (argparse type=float), and
\* the value of k * iqr for it, iqr being positive.  Larger than any finite
\* bound of the model.
Inf == 1000

\* q - k * iqr and q + k * iqr (times 8) for iqr > 0, k given in halves
LowerBound8(q1, iqr, k2) == IF k2 = Inf THEN -Inf ELSE 2 * q1 - k2 * iqr
UpperBound8(q3, iqr, k2) == IF k2 = Inf THEN Inf ELSE 2 * q3 + k2 * iqr

\* DetectColumn with a fault: the test of a zero or missing IQR left out
DetectColumnUnguarded(s, k2) ==
    LET x    == SortAsc(NonMissing(s))
        q1   == IF x = <<>> THEN 0 ELSE Quantile4(x, 1)
        q3   == IF x = <<>> THEN 0 ELSE Quantile4(x, 3)
        iqr  == q3 - q1
        low  == LowerBound8(q1, iqr, k2)
        high == UpperBound8(q3, iqr, k2)
    IN  [mask |-> MaskOf(s, low, high), nan |-> FALSE, low8 |-> low, high8 |-> high]

\* detect_outliers_iqr for one column c: the mask and the recorded bounds
DetectColumn(s, k2) ==
    LET x    == SortAsc(NonMissing(s))
        q1   == Quantile4(x, 1)
        q3   == Quantile4(x, 3)
        iqr  == q3 - q1
        low  == LowerBound8(q1, iqr, k2)
        high == UpperBound8(q3, iqr, k2)
    IN  IF x = <<>> \/ iqr = 0
        THEN [mask |-> [i \in 1..Len(s) |-> FALSE], nan |-> TRUE, low8 |-> 0, high8 |-> 0]
        ELSE [mask |-> MaskOf(s, low, high), nan |-> FALSE, low8 |-> low, high8 |-> high]

\* detect_outliers_iqr(df, cols, k): column -> [mask, nan, low8, high8]
detect_outliers_iqr(df, cols, k2) ==
    [c \in Range(cols) |-> DetectColumn(df.col[c], k2)]


\* summarize_masks: one row per column, sorted by column name.  The names of
\* DEFAULT_CONTINUOUS are in ascending order, so the sort keeps the order of cols.
CountTrue(m) == Cardinality({i \in DOMAIN m : m[i]})

NameRank(c) == CHOOSE r \in 1..Len(DEFAULT_CONTINUOUS) : DEFAULT_CONTINUOUS[r] = c

RECURSIVE InsertByColumn(_, _)
InsertByColumn(row, s) ==
    IF s = <<>> THEN <<row>>
    ELSE IF NameRank(row.column) <= NameRank(Head(s).column) THEN <<row>> \o s
    ELSE <<Head(s)>> \o InsertByColumn(row, Tail(s))

RECURSIVE SortByColumn(_)
SortByColumn(s) ==
    IF s = <<>> THEN <<>> ELSE InsertByColumn(Head(s), SortByColumn(Tail(s)))

summarize_masks(cols, masks) ==
    SortByColumn([j \in 1..Len(cols) |->
        [method |-> "iqr_outlier", column |-> cols[j],
         n_outliers |-> CountTrue(masks[cols[j]]),
         n_rows |-> Len(masks[cols[j]])]])

\* TrueIndices with a fault: positions counted from 1, not the RangeIndex
RECURSIVE TrueIndicesOneBased(_, _)
TrueIndicesOneBased(m, i) ==
    IF i > Len(m) THEN <<>>
    ELSE (IF m[i] THEN <<i>> ELSE <<>>) \o TrueIndicesOneBased(m, i + 1)

\* m[m].index.tolist(): the indices (0-based) of the True rows, ascending
RECURSIVE TrueIndices(_, _)
TrueIndices(m, i) ==
    IF i > Len(m) THEN <<>>
    ELSE (IF m[i] THEN <<i - 1>> ELSE <<>>) \o TrueIndices(m, i + 1)

RECURSIVE masks_to_long_indices(_, _)
masks_to_long_indices(cols, masks) ==
    IF cols = <<>> THEN <<>>
    ELSE LET c == Head(cols)
             idxs == TrueIndices(masks[c], 1)
         IN  [j \in 1..Len(idxs) |->
                 [method |-> "iqr_outlier", column |-> c, row_index |-> idxs[j]]]
             \o masks_to_long_indices(Tail(cols), masks)

FlagName(c) == c \o <<IqrSuffix>>

\* flagged_df[col_flag] = m.astype(int), for every detected column
WithFlagColumns(df, cols, masks) ==
    LET flagNames == {FlagName(c) : c \in Range(cols)}
        maskOf(name) == masks[CHOOSE c \in Range(cols) : FlagName(c) = name]
    IN  [n |-> df.n,
         col |-> [name \in (DOMAIN df.col) \cup flagNames |->
                    IF name \in flagNames
                    THEN [i \in 1..df.n |-> IF maskOf(name)[i] THEN 1 ELSE 0]
                    ELSE df.col[name]]]

\* DataFrame.sum(axis=1) over the columns `names` (NaN is skipped)
RowSum(df, names, i) ==
    LET s == SetToSeq(names)
    IN  SeqSum([j \in 1..Len(s) |-> IF df.col[s[j]][i] = NaN THEN 0 ELSE df.col[s[j]][i]])

\* flag_cols and flagged_df["__any_outlier_flag"]
WithAnyFlag(fdf) ==
    LET flag_cols == {name \in DOMAIN fdf.col : EndsWith(name, IqrSuffix)}
        any == [i \in 1..fdf.n |-> IF RowSum(fdf, flag_cols, i) > 0 THEN 1 ELSE 0]
    IN  [n |-> fdf.n,
         col |-> [name \in (DOMAIN fdf.col) \cup {AnyFlag} |->
                    IF name = AnyFlag THEN any ELSE fdf.col[name]]]

FlaggedDf(df, cols, masks) == WithAnyFlag(WithFlagColumns(df, cols, masks))

\* continuous_cols = [c for c in DEFAULT_CONTINUOUS if c in df.columns]
ContinuousCols(df) == SelectSeq(DEFAULT_CONTINUOUS, LAMBDA c : c \in DOMAIN df.col)

\* ---- the inputs of outlier.py ----

MaxCells == 5

Cells == {NaN, 0, 1, 2}

\* --iqr_k, in halves: k = -0.5, 0, 1.5 (the default), and k = inf
IqrK2 == {-1, 0, 3, Inf}

DetectLayouts ==
    { {}, {<<"BMI">>}, {<<"BMI">>, <<"MentHlth">>},
      {<<"BMI">>, <<"MentHlth">>, <<"PhysHlth">>} }

\* columns of the input that are not analysed; every cell of one holds the same value
ExtraLayouts ==
    { {}, {<<"Age">>}, {<<"Age", "__iqr_outlier">>},
      {<<"BMI", "__iqr_outlier">>, AnyFlag} }

ExtraCell == {0, 5}

\* the cell budget bounds the whole table: rows times columns
RowCounts(D, E, budget) == {n \in 0..budget : n * Cardinality(D \cup E) <= budget}

OutlierTables(budget) ==
    UNION { UNION { UNION { UNION {
        { [n |-> n,
           col |-> [name \in D \cup E |-> IF name \in D THEN f[name] ELSE [i \in 1..n |-> e]]]
          : f \in [D -> [1..n -> Cells]] }
        : e \in IF E = {} THEN {0} ELSE ExtraCell }
        : n \in RowCounts(D, E, budget) }
        : E \in ExtraLayouts }
        : D \in DetectLayouts }

\* what is read when --input names no file
NoTable == [n |-> 0, col |-> <<>>]

InitOutlier ==
    /\ script = "outlier"
    /\ pc = "start"
    /\ \E ex \in BOOLEAN :
          /\ IF ex THEN input \in OutlierTables(MaxCells) ELSE input = NoTable
          /\ \E k2 \in IqrK2 : args = [input_exists |-> ex, iqr_k2 |-> k2]
    /\ mem = NoMem
    /\ files = NoFiles
    /\ log = <<>>
    /\ status = Running

\* main, lines 101-118: the existence check, read_csv, the choice of columns
OutlierLoad ==
    /\ script = "outlier" /\ pc = "start"
    /\ IF InputMissing(args)
       THEN /\ pc' = "exit" /\ status' = 1
            /\ log' = Append(log, "ERROR")
            /\ mem' = mem
       ELSE LET cols == ContinuousCols(input)
            IN  IF cols = <<>>
                THEN /\ pc' = "exit" /\ status' = 0
                     /\ log' = log \o <<"INFO", "WARNING">>
                     /\ mem' = [df |-> input, continuous_cols |-> cols]
                ELSE /\ pc' = "detect" /\ status' = status
                     /\ log' = Append(log, "INFO")
                     /\ mem' = [df |-> input, continuous_cols |-> cols]
    /\ UNCHANGED <<script, args, input, files>>

\* main, lines 120-143: detection, the two aggregations and the flagged copy
OutlierDetect ==
    /\ script = "outlier" /\ pc = "detect"
    /\ LET cols  == mem.continuous_cols
           iqr   == detect_outliers_iqr(mem.df, cols, args.iqr_k2)
           masks == [c \in Range(cols) |-> iqr[c].mask]
       IN  mem' = [df |-> mem.df, continuous_cols |-> cols,
                   iqr_masks |-> masks,
                   iqr_bounds |-> [c \in Range(cols) |->
                       [nan |-> iqr[c].nan, low8 |-> iqr[c].low8, high8 |-> iqr[c].high8]],
                   summary |-> summarize_masks(cols, masks),
                   indices_long |-> masks_to_long_indices(cols, masks),
                   flagged_df |-> FlaggedDf(mem.df, cols, masks)]
    /\ pc' = "save"
    /\ log' = Append(log, "OUTLIER SUMMARY")
    /\ UNCHANGED <<script, args, input, files, status>>

\* main, lines 145-173: the four output files
OutlierSave ==
    /\ script = "outlier" /\ pc = "save"
    /\ files' = ("outliers_flagged.csv" :> mem.flagged_df)
             @@ ("outliers_summary.csv" :> mem.summary)
             @@ ("outliers_indices.csv" :> mem.indices_long)
             @@ ("outliers_meta.json" :>
                    [continuous_cols |-> mem.continuous_cols,
                     iqr_k2 |-> args.iqr_k2,
                     iqr_bounds |-> mem.iqr_bounds])
    /\ pc' = "exit" /\ status' = 0
    /\ log' = Append(log, "OK")
    /\ UNCHANGED <<script, args, input, mem>>

NextOutlier == OutlierLoad \/ OutlierDetect \/ OutlierSave

SpecOutlier == InitOutlier /\ [][NextOutlier]_vars

----------------------------------------------------------------------------
(* scripts/export_data.py                                                  *)
(*                                                                         *)
(* The dataset object ds is the input.  A table is [kind |-> "frame",      *)
(* cols |-> function from column names to column contents]; a column's     *)
(* content is named by where it came from.  Features and targets share one *)
(* row index, as ucimlrepo builds both from one table.  None is            *)
(* [kind |-> "none"]; a Series is [kind |-> "series", name |-> n].         *)

None == [kind |-> "none"]
NoName == <<>>
TargetSuffix == "_target"

\* content of a file that was in the output directory before the run
Old == [kind |-> "old"]

ExportFiles == {"metadata.json", "features.csv", "targets.csv", "combined.csv"}

\* EnsureOutdirExits with a fault: the test of --overwrite inverted
EnsureOutdirExitsInverted(exists, overwrite) == exists /\ overwrite

\* ensure_outdir: the run stops when the directory exists and --overwrite is absent
EnsureOutdirExits(exists, overwrite) == exists /\ ~overwrite

\* getattr(ds, "metadata", {}): the default when the attribute is missing
MetaOf(ds) == IF ds.metadata.kind = "missing" THEN [kind |-> "dict", keys |-> {}] ELSE ds.metadata

\* targets.to_frame(name=targets.name or "target"), or targets itself
ToFrame(targets) ==
    IF targets.kind = "series"
    THEN [kind |-> "frame",
          cols |-> (IF targets.name = NoName THEN <<"target">> ELSE targets.name)
                      :> [from |-> "targets", name |-> targets.name]]
    ELSE targets

\* TargetDf with a fault: target_df assigned only after targets.csv was written
TargetDfAfterWrite(targets, convertOK, writeOK) ==
    IF targets.kind = "none" \/ ~convertOK \/ ~writeOK THEN None ELSE ToFrame(targets)

\* target_df after lines 80-92: set as soon as the conversion succeeded
TargetDf(targets, convertOK, writeOK) ==
    IF targets.kind = "none" \/ ~convertOK THEN None ELSE ToFrame(targets)

\* rename_map applied to one name of target_df (lines 99-106)
Renamed(c, features) ==
    IF c \in DOMAIN features.cols THEN c \o <<TargetSuffix>> ELSE c

\* target_df.rename leaves two columns of one name: target_df[c] is then a
\* DataFrame and combined[c] = target_df[c] raises ValueError
RenameClashes(features, target_df) ==
    \E c, d \in DOMAIN target_df.cols :
        c # d /\ Renamed(c, features) = Renamed(d, features)

\* combined after lines 97-108
Combined(features, target_df) ==
    LET newNames == {Renamed(c, features) : c \in DOMAIN target_df.cols}
        origin(nm) == CHOOSE c \in DOMAIN target_df.cols : Renamed(c, features) = nm
    IN  [kind |-> "frame",
         cols |-> [nm \in (DOMAIN features.cols) \cup newNames |->
                     IF nm \in newNames THEN target_df.cols[origin(nm)]
                     ELSE features.cols[nm]]]

\* ---- the inputs of export_data.py ----

MaxNames == 3

NamePool == << <<"x">>, <<"x", "_target">>, <<"z">>, <<"z", "_target">>, <<"y">> >>

ExportNames(k) == {NamePool[i] : i \in 1..(IF k < Len(NamePool) THEN k ELSE Len(NamePool))}

FrameOf(kind, names) ==
    [kind |-> "frame", cols |-> [c \in names |-> [from |-> kind, name |-> c]]]

FeatureValues(k) == {None} \cup {FrameOf("features", S) : S \in SUBSET ExportNames(k)}

TargetValues(k) ==
    {None} \cup {FrameOf("targets", S) : S \in SUBSET ExportNames(k)}
           \cup {[kind |-> "series", name |-> n] : n \in {NoName} \cup ExportNames(k)}

\* ds.metadata: the attribute is missing, is None, or is a mapping
MetadataValues ==
    {[kind |-> "missing"], None,
     [kind |-> "dict", keys |-> {}], [kind |-> "dict", keys |-> {"name"}]}

Datasets(k) ==
    {[metadata |-> m, data |-> None] : m \in MetadataValues}
    \cup {[metadata |-> m, data |-> [kind |-> "data", features |-> f, targets |-> t]]
            : m \in MetadataValues, f \in FeatureValues(k), t \in TargetValues(k)}

\* the output directory before the run: absent, empty, or left by an earlier run
InitialDirs ==
    {[exists |-> FALSE, content |-> NoFiles],
     [exists |-> TRUE, content |-> NoFiles],
     [exists |-> TRUE, content |-> [f \in ExportFiles |-> Old]]}

InitExport ==
    /\ script = "export_data"
    /\ pc = "start"
    /\ \E d \in InitialDirs, ow \in BOOLEAN :
          /\ args = [outdir_exists |-> d.exists, overwrite |-> ow, dir0 |-> d.content]
          /\ files = d.content
    /\ input \in Datasets(MaxNames)
    /\ mem = [fetched |-> FALSE, exported |-> FALSE, raised |-> {}]
    /\ log = <<>>
    /\ status = Running

\* main lines 118-129 with ensure_outdir
ExportEnsureOutdir ==
    /\ script = "export_data" /\ pc = "start"
    /\ IF EnsureOutdirExits(args.outdir_exists, args.overwrite)
       THEN /\ pc' = "exit" /\ status' = 1
            /\ log' = log \o <<"start", "ERROR dir exists">>
       ELSE /\ pc' = "fetch" /\ status' = status
            /\ log' = log \o <<"start", IF args.outdir_exists THEN "dir exists, overwrite"
                                        ELSE "dir created">>
    /\ UNCHANGED <<script, args, input, mem, files>>

\* main lines 131-140: fetch_ucirepo fails (caught, exit 1) or returns ds; then
\* meta.get("name") raises AttributeError when ds.metadata is None (uncaught)
ExportFetch ==
    /\ script = "export_data" /\ pc = "fetch"
    /\ \E fetchOK \in BOOLEAN :
         IF ~fetchOK
         THEN /\ pc' = "exit" /\ status' = 1
              /\ log' = Append(log, "fetch failed")
              /\ mem' = mem
         ELSE IF MetaOf(input).kind = "dict"
              THEN /\ pc' = "save_metadata" /\ status' = status
                   /\ log' = Append(log, "name")
                   /\ mem' = [mem EXCEPT !.fetched = TRUE]
              ELSE /\ pc' = "exit" /\ status' = 1
                   /\ log' = log
                   /\ mem' = [mem EXCEPT !.fetched = TRUE]
    /\ UNCHANGED <<script, args, input, files>>

\* save_metadata, called from main line 143
ExportSaveMetadata ==
    /\ script = "export_data" /\ pc = "save_metadata"
    /\ files' = ("metadata.json" :> MetaOf(input)) @@ files
    /\ log' = Append(log, "saved metadata.json")
    /\ pc' = "export"
    /\ UNCHANGED <<script, args, input, mem, status>>

\* export_features_targets and the completion log, main lines 146-148.
\* fOK, convOK, tOK, cOK: whether features.to_csv, the conversion of targets,
\* target_df.to_csv and the combine-and-write step run without an exception.
ExportFeaturesTargets ==
    /\ script = "export_data" /\ pc = "export"
    /\ pc' = "exit" /\ status' = 0
    /\ IF input.data.kind = "none"
       THEN /\ log' = log \o <<"no ds.data", "done">>
            /\ files' = files
            /\ mem' = [mem EXCEPT !.exported = TRUE]
       ELSE LET features == input.data.features
                targets  == input.data.targets
            IN  IF features.kind = "none" /\ targets.kind = "none"
                THEN /\ log' = log \o <<"no features, no targets", "done">>
                     /\ files' = files
                     /\ mem' = [mem EXCEPT !.exported = TRUE]
                ELSE \E fOK, convOK, tOK, cOK \in BOOLEAN :
                     LET target_df == TargetDf(targets, convOK, tOK)
                         fWritten  == features.kind # "none" /\ fOK
                         tWritten  == targets.kind # "none" /\ convOK /\ tOK
                         cTried    == features.kind # "none" /\ target_df.kind # "none"
                         cRaised   == cTried /\ (~cOK \/ RenameClashes(features, target_df))
                         cWritten  == cTried /\ ~cRaised
                         renames   == cTried /\ \E c \in DOMAIN target_df.cols :
                                                    c \in DOMAIN features.cols
                     IN  /\ files' =
                               (IF cWritten THEN "combined.csv" :> Combined(features, target_df)
                                ELSE NoFiles)
                            @@ (IF tWritten THEN "targets.csv" :> target_df ELSE NoFiles)
                            @@ (IF fWritten THEN "features.csv" :> features ELSE NoFiles)
                            @@ files
                         /\ log' = log
                               \o (IF features.kind = "none" THEN <<>>
                                   ELSE IF fOK THEN <<"saved features.csv">>
                                   ELSE <<"features.csv failed">>)
                               \o (IF targets.kind = "none" THEN <<>>
                                   ELSE IF tWritten THEN <<"saved targets.csv">>
                                   ELSE <<"targets.csv failed">>)
                               \o (IF ~cTried THEN <<"no combined.csv: features or targets missing">>
                                   ELSE (IF renames THEN <<"renamed">> ELSE <<>>)
                                        \o (IF cRaised THEN <<"combined.csv failed">>
                                            ELSE <<"saved combined.csv">>))
                               \o <<"done">>
                         /\ mem' = [mem EXCEPT !.exported = TRUE,
                                       !.raised =
                                           (IF features.kind # "none" /\ ~fOK THEN {"features.to_csv"} ELSE {})
                                      \cup (IF targets.kind # "none" /\ ~convOK THEN {"targets conversion"} ELSE {})
                                      \cup (IF targets.kind # "none" /\ convOK /\ ~tOK THEN {"targets.to_csv"} ELSE {})
                                      \cup (IF cRaised THEN {"combine"} ELSE {})]
    /\ UNCHANGED <<script, args, input>>

NextExport == ExportEnsureOutdir \/ ExportFetch \/ ExportSaveMetadata \/ ExportFeaturesTargets

SpecExport == InitExport /\ [][NextExport]_vars

----------------------------------------------------------------------------
(* src/class_stats.py                                                      *)
(*                                                                         *)
(* The input table also records the order of its columns and the dtype     *)
(* read_csv gives each: "int64" (whole numbers, none missing), "float64"   *)
(* (numbers, or nothing but missing cells), "bool" (True/False, none       *)
(* missing) and "object" (text).  Cells are value codes.                   *)

TARGET_COL == <<"Diabetes_binary">>

\* a column with at most this many distinct values is taken as categorical
MAX_CATEGORIES == 10

\* Series.nunique(): the number of distinct non-missing values
NUnique(cells) == Cardinality(Range(cells) \ {NaN})

\* the test of lines 64-68 on one column
IsCategorical(dtype, cells) ==
    \/ dtype = "object"
    \/ dtype \in {"int64", "float64"} /\ NUnique(cells) <= MAX_CATEGORIES

\* categorical_cols after lines 62-73: the columns passing the test, in the
\* order of df.columns, without the target column
CategoricalCols(df) ==
    SelectSeq(df.columns,
              LAMBDA c : IsCategorical(df.dtype[c], df.col[c]) /\ c # TARGET_COL)

\* round(pct, 2) of pct = cnt / total * 100, in hundredths.  No tie occurs
\* for totals below 32, which the row bound keeps.
Percentage(cnt, total) == (cnt * 20000 + total) \div (2 * total)

\* value_counts().dropna() of one column with Count and Percentage: the rows of
\* class_stats.csv for that column (their order among equal counts is pandas')
ValueCountRows(c, cells) ==
    LET vals  == Range(cells) \ {NaN}
        cnt(v) == Cardinality({i \in DOMAIN cells : cells[i] = v})
        total == Cardinality({i \in DOMAIN cells : cells[i] # NaN})
    IN  {[Variable |-> c, Category |-> v, Count |-> cnt(v),
          Percentage |-> Percentage(cnt(v), total)] : v \in vals}

\* ---- the inputs of class_stats.py ----

ClassRows == 12

ClassLayouts ==
    { << <<"Sex">> >>, << TARGET_COL >>, << <<"Sex">>, TARGET_COL >>,
      << <<"Sex">>, <<"Age">> >> }

\* a column of n cells holding exactly m distinct values, the rest
\* missing (withNaN) or repeating the last value
ColumnCells(n, m, withNaN) ==
    [i \in 1..n |-> IF i <= m THEN i ELSE IF withNaN THEN NaN ELSE m]

\* the (dtype, cells) pairs read_csv can produce
TypedColumns(n) ==
    {[dtype |-> "object", cells |-> ColumnCells(n, m, w)] : m \in 1..n, w \in BOOLEAN}
    \cup {[dtype |-> "int64", cells |-> ColumnCells(n, m, FALSE)] : m \in 1..n}
    \cup {[dtype |-> "float64", cells |-> ColumnCells(n, m, w)] : m \in 1..n, w \in BOOLEAN}
    \cup {[dtype |-> "float64", cells |-> ColumnCells(n, 0, TRUE)]}
    \cup {[dtype |-> "bool", cells |-> ColumnCells(n, m, FALSE)] : m \in 1..2}

TypedTables(layouts, n) ==
    UNION { { [n |-> n, columns |-> L,
               dtype |-> [c \in Range(L) |-> f[c].dtype],
               col |-> [c \in Range(L) |-> f[c].cells]]
              : f \in [Range(L) -> TypedColumns(n)] }
            : L \in layouts }

InitClass ==
    /\ script = "class_stats"
    /\ pc = "start"
    /\ \E ex \in BOOLEAN : args = [input_exists |-> ex]
    /\ IF args.input_exists THEN input \in TypedTables(ClassLayouts, ClassRows)
       ELSE input = [n |-> 0, columns |-> <<>>, dtype |-> <<>>, col |-> <<>>]
    /\ mem = NoMem
    /\ files = NoFiles
    /\ log = <<>>
    /\ status = Running

\* main, lines 50-79: the existence check, read_csv, the classification
ClassLoad ==
    /\ script = "class_stats" /\ pc = "start"
    /\ IF InputMissing(args)
       THEN /\ pc' = "exit" /\ status' = 1
            /\ log' = Append(log, "ERROR")
            /\ mem' = mem
       ELSE LET cats == CategoricalCols(input)
            IN  /\ mem' = [df |-> input, categorical_cols |-> cats]
                /\ IF cats = <<>>
                   THEN /\ pc' = "exit" /\ status' = 0
                        /\ log' = log \o <<"INFO", "WARNING">>
                   ELSE /\ pc' = "save" /\ status' = status
                        /\ log' = log \o <<"INFO", "INFO">>
    /\ UNCHANGED <<script, args, input, files>>

\* main, lines 81-109: class_stats.csv and one LaTeX table per variable
ClassSave ==
    /\ script = "class_stats" /\ pc = "save"
    /\ files' = "class_stats.csv" :>
                   [variables |-> mem.categorical_cols,
                    rows |-> UNION {ValueCountRows(c, mem.df.col[c])
                                      : c \in Range(mem.categorical_cols)}]
    /\ log' = log \o <<"OK">> \o [j \in 1..Len(mem.categorical_cols) |-> "LaTeX table"]
    /\ pc' = "exit" /\ status' = 0
    /\ UNCHANGED <<script, args, input, mem>>

NextClass == ClassLoad \/ ClassSave

SpecClass == InitClass /\ [][NextClass]_vars

----------------------------------------------------------------------------
(* src/normality_test.py and src/mann_whitney_test.py                      *)
(*                                                                         *)
(* Both scripts run one library test per continuous variable and turn its  *)
(* p-value into a verdict.  shapiro and mannwhitneyu are library code: the *)
(* p-value they return is an input of the step, drawn from PValues.        *)
(* p-values are kept in units of 0.00001; NaN is the p-value nan.  The     *)
(* test statistic takes no part in the verdict and is left out of the      *)
(* rows.                                                                   *)

CONTINUOUS_VARS == << <<"BMI">>, <<"MentHlth">>, <<"PhysHlth">> >>

GROUP_COL == <<"Diabetes_binary">>

\* the threshold 0.05 of normality_test.py and of mann_whitney_test.py
NORMALITY_ALPHA == 5000
SIGNIFICANCE_ALPHA == 5000

\* shapiro needs at least this many values
MIN_SHAPIRO == 3

\* IsNormal with a fault: a p-value equal to the threshold counts as normal
IsNormalInclusive(p) == p # NaN /\ p >= NORMALITY_ALPHA

\* normality = p > 0.05 (False for nan)
IsNormal(p) == p # NaN /\ p > NORMALITY_ALPHA

\* significant = p < 0.05 (False for nan)
IsSignificant(p) == p # NaN /\ p < SIGNIFICANCE_ALPHA

\* "%.2e" and "{:.2e}": the value rounded to three significant digits
RECURSIVE UnitOf(_)
UnitOf(v) == IF v < 1000 THEN 1 ELSE 10 * UnitOf(v \div 10)

Fmt2e(p) ==
    IF p = NaN THEN NaN
    ELSE LET u == UnitOf(p) IN ((2 * p + u) \div (2 * u)) * u

\* df[var].dropna() of the rows `rows`
DropNa(df, var, rows) == SelectSeq([j \in 1..Len(rows) |-> df.col[var][rows[j]]],
                                   LAMBDA v : v # NaN)

\* GroupRows with a fault: group 1 taken as every row that is not of group 0
RECURSIVE GroupRowsNotZero(_, _, _)
GroupRowsNotZero(df, g, i) ==
    IF i > df.n THEN <<>>
    ELSE (IF (df.col[GROUP_COL][i] = 0) <=> (g = 0) THEN <<i>> ELSE <<>>)
         \o GroupRowsNotZero(df, g, i + 1)

\* the row positions of df[df[GROUP_COL] == g]
RECURSIVE GroupRows(_, _, _)
GroupRows(df, g, i) ==
    IF i > df.n THEN <<>>
    ELSE (IF df.col[GROUP_COL][i] = g THEN <<i>> ELSE <<>>) \o GroupRows(df, g, i + 1)

AllRows(df) == [i \in 1..df.n |-> i]

\* continuous_vars = [v for v in continuous_vars if v in df.columns]
ContinuousVars(df) == SelectSeq(CONTINUOUS_VARS, LAMBDA v : v \in DOMAIN df.col)

\* the variables of normality_test.py that are not skipped (line 70)
ShapiroVars(df, cvars) ==
    SelectSeq(cvars, LAMBDA v : Len(DropNa(df, v, AllRows(df))) >= MIN_SHAPIRO)

\* data0 and data1 of lines 73-74 for a variable: the two samples handed to
\* mannwhitneyu
MannWhitneySamples(df, v) ==
    [data0 |-> DropNa(df, v, GroupRows(df, 0, 1)),
     data1 |-> DropNa(df, v, GroupRows(df, 1, 1))]

\* the variables of mann_whitney_test.py that are not skipped (line 75)
MannWhitneyVars(df, cvars) ==
    SelectSeq(cvars, LAMBDA v : /\ Len(MannWhitneySamples(df, v).data0) >= 1
                                /\ Len(MannWhitneySamples(df, v).data1) >= 1)

\* results_df of normality_test.py, p the p-values returned by shapiro
NormalityResults(tested, p) ==
    [j \in 1..Len(tested) |->
        [Variable |-> tested[j], pvalue |-> p[tested[j]], Normality |-> IsNormal(p[tested[j]])]]

\* results_df of mann_whitney_test.py, p the p-values returned by mannwhitneyu
MannWhitneyResults(tested, p) ==
    [j \in 1..Len(tested) |->
        [Variable |-> tested[j], pvalue |-> p[tested[j]],
         Significant |-> IsSignificant(p[tested[j]])]]

\* results_df.to_csv(float_format='%.2e'): the verdict is written as it is
NormalityCsv(results) ==
    [j \in 1..Len(results) |->
        [Variable |-> results[j].Variable, pvalue |-> Fmt2e(results[j].pvalue),
         Normality |-> results[j].Normality]]

MannWhitneyCsv(results) ==
    [j \in 1..Len(results) |->
        [Variable |-> results[j].Variable, pvalue |-> Fmt2e(results[j].pvalue),
         Significant |-> results[j].Significant]]

\* generate_latex_table of normality_test.py: the data rows
NormalityLatex(results) ==
    [j \in 1..Len(results) |->
        [Variable |-> results[j].Variable, pvalue |-> Fmt2e(results[j].pvalue),
         verdict |-> IF results[j].Normality THEN "Yes" ELSE "No"]]

\* generate_latex_table of mann_whitney_test.py: the data rows
MannWhitneyLatex(results) ==
    [j \in 1..Len(results) |->
        [Variable |-> results[j].Variable, pvalue |-> Fmt2e(results[j].pvalue),
         verdict |-> IF results[j].Significant THEN "Yes" ELSE "No"]]

\* ---- the inputs of the two test scripts ----

MaxTestCells == 6

PValues == {NaN, 0, 4996, 5000, 5004}

ValueCells == {NaN, 7, 8}
GroupCells == {NaN, 0, 1, 2}

TestLayouts ==
    { {<<"Age">>}, {<<"BMI">>}, {<<"BMI">>, <<"MentHlth">>},
      {<<"BMI">>, GROUP_COL}, {<<"BMI">>, <<"MentHlth">>, GROUP_COL},
      {<<"MentHlth">>, <<"PhysHlth">>, GROUP_COL} }

TestRowCounts(L, budget) == {n \in 0..budget : n * Cardinality(L) <= budget}

TestTables(budget) ==
    UNION { UNION {
        { [n |-> n, col |-> [c \in L |-> IF c = GROUP_COL THEN fg[c] ELSE fv[c]]]
          : fv \in [L \ {GROUP_COL} -> [1..n -> ValueCells]],
            fg \in [L \cap {GROUP_COL} -> [1..n -> GroupCells]] }
        : n \in TestRowCounts(L, budget) }
        : L \in TestLayouts }

InitTests ==
    /\ script \in {"normality_test", "mann_whitney_test"}
    /\ pc = "start"
    /\ \E ex \in BOOLEAN : args = [input_exists |-> ex]
    /\ IF args.input_exists THEN input \in TestTables(MaxTestCells) ELSE input = NoTable
    /\ mem = NoMem
    /\ files = NoFiles
    /\ log = <<>>
    /\ status = Running

\* normality_test.py main, lines 45-64
NormalityLoad ==
    /\ script = "normality_test" /\ pc = "start"
    /\ IF InputMissing(args)
       THEN /\ pc' = "exit" /\ status' = 1
            /\ log' = Append(log, "ERROR")
            /\ mem' = mem
       ELSE LET cvars == ContinuousVars(input)
            IN  /\ mem' = [df |-> input, continuous_vars |-> cvars]
                /\ IF cvars = <<>>
                   THEN /\ pc' = "exit" /\ status' = 0
                        /\ log' = log \o <<"INFO", "WARNING">>
                   ELSE /\ pc' = "test" /\ status' = status
                        /\ log' = log \o <<"INFO", "INFO">>
    /\ UNCHANGED <<script, args, input, files>>

\* normality_test.py main, lines 66-100
NormalityTest ==
    /\ script = "normality_test" /\ pc = "test"
    /\ LET tested == ShapiroVars(mem.df, mem.continuous_vars)
       IN  \E p \in [Range(tested) -> PValues] :
             LET results == NormalityResults(tested, p)
             IN  /\ mem' = [df |-> mem.df, continuous_vars |-> mem.continuous_vars,
                            results_df |-> results,
                            latex_table |-> NormalityLatex(results)]
                 /\ files' = "normality_test.csv" :> NormalityCsv(results)
                 /\ log' = log
                       \o [j \in 1..(Len(mem.continuous_vars) - Len(tested)) |-> "WARNING"]
                       \o <<"OK", "LaTeX table">>
    /\ pc' = "exit" /\ status' = 0
    /\ UNCHANGED <<script, args, input>>

\* mann_whitney_test.py main, lines 45-64
MannWhitneyLoad ==
    /\ script = "mann_whitney_test" /\ pc = "start"
    /\ IF InputMissing(args)
       THEN /\ pc' = "exit" /\ status' = 1
            /\ log' = Append(log, "ERROR")
            /\ mem' = mem
       ELSE LET cvars == ContinuousVars(input)
            IN  /\ mem' = [df |-> input, continuous_vars |-> cvars]
                /\ IF cvars = <<>>
                   THEN /\ pc' = "exit" /\ status' = 0
                        /\ log' = log \o <<"INFO", "WARNING">>
                   ELSE /\ pc' = "test" /\ status' = status
                        /\ log' = log \o <<"INFO", "INFO">>
    /\ UNCHANGED <<script, args, input, files>>

\* mann_whitney_test.py main, lines 66-105; df['Diabetes_binary'] raises
\* KeyError (uncaught) when the table has no such column
MannWhitneyTest ==
    /\ script = "mann_whitney_test" /\ pc = "test"
    /\ IF GROUP_COL \notin DOMAIN mem.df.col
       THEN /\ pc' = "exit" /\ status' = 1
            /\ UNCHANGED <<mem, files, log>>
       ELSE LET tested == MannWhitneyVars(mem.df, mem.continuous_vars)
            IN  \E p \in [Range(tested) -> PValues] :
                  LET results == MannWhitneyResults(tested, p)
                  IN  /\ mem' = [df |-> mem.df, continuous_vars |-> mem.continuous_vars,
                                 samples |-> [v \in Range(tested) |->
                                                MannWhitneySamples(mem.df, v)],
                                 results_df |-> results,
                                 latex_table |-> MannWhitneyLatex(results)]
                      /\ files' = "mann_whitney_test.csv" :> MannWhitneyCsv(results)
                      /\ log' = log
                            \o [j \in 1..(Len(mem.continuous_vars) - Len(tested)) |-> "WARNING"]
                            \o <<"OK", "LaTeX table">>
                      /\ pc' = "exit" /\ status' = 0
    /\ UNCHANGED <<script, args, input>>

NextTests == NormalityLoad \/ NormalityTest \/ MannWhitneyLoad \/ MannWhitneyTest

SpecTests == InitTests /\ [][NextTests]_vars

----------------------------------------------------------------------------
(* src/numeric_stats.py                                                    *)
(*                                                                         *)
(* mean, median, mode, std, var, max - min, skew and kurtosis are library  *)
(* functions: the eight values of a variable are an input of the step,     *)
(* drawn from StatVectors, in thousandths (NaN where the library returns   *)
(* nan).  stats_df is [index, columns, values]: "Variable" is its index,   *)
(* not one of its columns.                                                 *)

STAT_COLUMNS == <<"Mean", "Median", "Mode", "Std", "Var", "Range", "Skew", "Kurt">>

\* round(2) of a value in thousandths, in hundredths.  The inputs hold no tie.
Round2(v) ==
    IF v = NaN THEN NaN
    ELSE LET q == v \div 10
             r == v % 10
         IN  IF r < 5 THEN q ELSE IF r > 5 THEN q + 1
             ELSE IF q % 2 = 0 THEN q ELSE q + 1

\* numeric_cols: select_dtypes(include=['number']) without the target column
NumericCols(df) ==
    SelectSeq(df.columns,
              LAMBDA c : df.dtype[c] \in {"int64", "float64"} /\ c # TARGET_COL)

\* the columns compute_stats does not skip: those with a non-missing value
ComputedCols(df, cols) ==
    SelectSeq(cols, LAMBDA c : \E i \in 1..df.n : df.col[c][i] # NaN)

\* compute_stats: one row per computed column, indexed by Variable
compute_stats(df, cols, stat) ==
    LET computed == ComputedCols(df, cols)
    IN  [index |-> computed, columns |-> STAT_COLUMNS,
         values |-> [j \in 1..Len(computed) |-> stat[computed[j]]]]

\* stats_df.to_csv(csv_path): the index is written as the first column
NumericCsv(stats_df) ==
    [header |-> <<"Variable">> \o stats_df.columns,
     rows |-> [j \in 1..Len(stats_df.index) |->
                 [Variable |-> stats_df.index[j], values |-> stats_df.values[j]]]]

\* generate_latex_table: the header and the data rows; both skip the first
\* column of stats_df (columns[1:], row.values[1:])
generate_latex_table(stats_df) ==
    [col_spec |-> Len(stats_df.columns),
     header |-> <<"Variable">> \o Tail(stats_df.columns),
     rows |-> [j \in 1..Len(stats_df.index) |->
                 [Variable |-> stats_df.index[j],
                  cells |-> Tail([k \in 1..Len(stats_df.columns) |->
                                     Round2(stats_df.values[j][k])])]]]

\* ---- the inputs of numeric_stats.py ----

NumericRows == 2

NumericLayouts ==
    { << <<"BMI">> >>, << <<"BMI">>, <<"Age">> >>, << <<"Sex">>, TARGET_COL >> }

StatBases == {-9006, 4, 1236}

StatVectors ==
    {[k \in 1..Len(STAT_COLUMNS) |-> b + 1000 * k] : b \in StatBases}
    \cup {[k \in 1..Len(STAT_COLUMNS) |-> IF k \in {4, 5, 7, 8} THEN NaN ELSE 2004]}

InitNumeric ==
    /\ script = "numeric_stats"
    /\ pc = "start"
    /\ \E ex \in BOOLEAN : args = [input_exists |-> ex]
    /\ IF args.input_exists THEN input \in TypedTables(NumericLayouts, NumericRows)
       ELSE input = [n |-> 0, columns |-> <<>>, dtype |-> <<>>, col |-> <<>>]
    /\ mem = NoMem
    /\ files = NoFiles
    /\ log = <<>>
    /\ status = Running

\* main, lines 85-107
NumericLoad ==
    /\ script = "numeric_stats" /\ pc = "start"
    /\ IF InputMissing(args)
       THEN /\ pc' = "exit" /\ status' = 1
            /\ log' = Append(log, "ERROR")
            /\ mem' = mem
       ELSE LET cols == NumericCols(input)
            IN  /\ mem' = [df |-> input, numeric_cols |-> cols]
                /\ IF cols = <<>>
                   THEN /\ pc' = "exit" /\ status' = 0
                        /\ log' = log \o <<"INFO", "WARNING">>
                   ELSE /\ pc' = "stats" /\ status' = status
                        /\ log' = log \o <<"INFO", "INFO">>
    /\ UNCHANGED <<script, args, input, files>>

\* main, lines 109-133.  When every numeric column is empty, stats is [] and
\* set_index("Variable") raises KeyError (uncaught).
NumericStats ==
    /\ script = "numeric_stats" /\ pc = "stats"
    /\ IF ComputedCols(mem.df, mem.numeric_cols) = <<>>
       THEN /\ pc' = "exit" /\ status' = 1
            /\ UNCHANGED <<mem, files, log>>
       ELSE \E stat \in [Range(ComputedCols(mem.df, mem.numeric_cols)) -> StatVectors] :
              LET stats_df == compute_stats(mem.df, mem.numeric_cols, stat)
              IN  /\ mem' = [df |-> mem.df, numeric_cols |-> mem.numeric_cols,
                             stats_df |-> stats_df,
                             latex_table |-> generate_latex_table(stats_df)]
                  /\ files' = "numeric_stats.csv" :> NumericCsv(stats_df)
                  /\ log' = log \o <<"OK", "LaTeX table">>
                  /\ pc' = "exit" /\ status' = 0
    /\ UNCHANGED <<script, args, input>>

NextNumeric == NumericLoad \/ NumericStats

SpecNumeric == InitNumeric /\ [][NextNumeric]_vars

----------------------------------------------------------------------------
(* src/visualization.py and src/data_exploration.py                        *)
(*                                                                         *)
(* The drawing functions of seaborn and matplotlib are library code: a     *)
(* figure is [kind |-> "png", vars, plot_type], and whether drawing it      *)
(* raises is an input of the step.  data_exploration.py writes no file: it  *)
(* prints its report.  The input table is [n, col] as for outlier.py.       *)

\* univariate_vars, in the order of the dictionary
UNIVARIATE_VARS ==
    << [var |-> <<"BMI">>,      plot_type |-> "hist"],
       [var |-> <<"MentHlth">>, plot_type |-> "box"],
       [var |-> <<"PhysHlth">>, plot_type |-> "hist"],
       [var |-> <<"HighBP">>,   plot_type |-> "bar"],
       [var |-> <<"Smoker">>,   plot_type |-> "bar"] >>

\* multivariate_plots
MULTIVARIATE_PLOTS ==
    << [vars_list |-> << <<"BMI">>, <<"MentHlth">>, <<"PhysHlth">> >>, plot_type |-> "heatmap"],
       [vars_list |-> << <<"HighBP">>, <<"Diabetes_binary">> >>, plot_type |-> "stacked_bar"],
       [vars_list |-> << <<"Smoker">>, <<"Diabetes_binary">> >>, plot_type |-> "stacked_bar"],
       [vars_list |-> << <<"BMI">>, <<"Diabetes_binary">> >>, plot_type |-> "box_hue"] >>

\* '_'.join(vars_list)
RECURSIVE JoinNames(_)
JoinNames(vars_list) ==
    IF Len(vars_list) = 1 THEN vars_list[1][1]
    ELSE vars_list[1][1] \o "_" \o JoinNames(Tail(vars_list))

\* os.path.join(figs_dir, "univariate", f"{var}_{plot_type}.png"), below figs_dir
UnivariatePath(u) == "univariate/" \o u.var[1] \o "_" \o u.plot_type \o ".png"

\* os.path.join(figs_dir, "multivariate", f"{'_'.join(vars_list)}_{plot_type}.png")
MultivariatePath(m) == "multivariate/" \o JoinNames(m.vars_list) \o "_" \o m.plot_type \o ".png"

\* the figures main draws for a table, in order: [path, figure]
UnivariateJobs(df) ==
    LET present == SelectSeq(UNIVARIATE_VARS, LAMBDA u : u.var \in DOMAIN df.col)
    IN  [i \in 1..Len(present) |->
            [path |-> UnivariatePath(present[i]),
             figure |-> [kind |-> "png", vars |-> <<present[i].var>>,
                         plot_type |-> present[i].plot_type]]]

MultivariateJobs(df) ==
    LET present == SelectSeq(MULTIVARIATE_PLOTS,
                             LAMBDA m : \A v \in Range(m.vars_list) : v \in DOMAIN df.col)
    IN  [i \in 1..Len(present) |->
            [path |-> MultivariatePath(present[i]),
             figure |-> [kind |-> "png", vars |-> present[i].vars_list,
                         plot_type |-> present[i].plot_type]]]

PlotJobs(df) == UnivariateJobs(df) \o MultivariateJobs(df)

\* the files written by the first k jobs
SavedFigures(jobs, k) ==
    [path \in {jobs[i].path : i \in 1..k} |->
        jobs[CHOOSE i \in 1..k : jobs[i].path = path].figure]

\* the lines printed by plot_univariate and plot_multivariate for k jobs
SavedLines(k) == [i \in 1..k |-> "SAVED"]

\* isnull().sum().sum()
TotalMissing(df) ==
    Cardinality({<<c, i>> \in (DOMAIN df.col) \X (1..df.n) : df.col[c][i] = NaN})

\* the report data_exploration.py prints after the line of read_csv
ExplorationReportLines(df) ==
    <<"subsection", "shape", "dtypes">>
    \o (IF DOMAIN df.col # {} THEN <<"desc_stats">> ELSE <<"no numeric">>)
    \o <<"total_missing">>
    \o (IF TotalMissing(df) > 0 THEN <<"missing by column">> ELSE <<>>)
    \o <<"duplicates">>
    \o (IF <<"Diabetes_binary">> \in DOMAIN df.col THEN <<"target distribution">> ELSE <<>>)

\* ---- the inputs of visualization.py and data_exploration.py ----

FigureRows == 1

FigureCells == {NaN, 0}

FigureLayouts ==
    { {}, {<<"BMI">>}, {<<"BMI">>, <<"MentHlth">>, <<"PhysHlth">>},
      {<<"HighBP">>, <<"Diabetes_binary">>},
      {<<"BMI">>, <<"Smoker">>, <<"Diabetes_binary">>},
      {<<"BMI">>, <<"MentHlth">>, <<"PhysHlth">>, <<"HighBP">>, <<"Smoker">>,
       <<"Diabetes_binary">>} }

FigureTables(rows) ==
    UNION { UNION { { [n |-> n, col |-> f] : f \in [L -> [1..n -> FigureCells]] }
                    : n \in 0..rows }
            : L \in FigureLayouts }

InitFigures ==
    /\ script \in {"visualization", "data_exploration"}
    /\ pc = "start"
    /\ \E ex \in BOOLEAN : args = [input_exists |-> ex]
    /\ IF args.input_exists THEN input \in FigureTables(FigureRows) ELSE input = NoTable
    /\ mem = NoMem
    /\ files = NoFiles
    /\ log = <<>>
    /\ status = Running

\* visualization.py main, lines 84-100: the existence check and read_csv.  The
\* two os.makedirs before the check create directories, no file.
VisualizationLoad ==
    /\ script = "visualization" /\ pc = "start"
    /\ IF InputMissing(args)
       THEN /\ pc' = "exit" /\ status' = 1
            /\ log' = Append(log, "ERROR")
            /\ mem' = mem
       ELSE /\ pc' = "plot" /\ status' = status
            /\ log' = Append(log, "INFO")
            /\ mem' = [df |-> input]
    /\ UNCHANGED <<script, args, input, files>>

\* visualization.py main, lines 102-127: one figure per job, in order.  fail is
\* the job whose drawing raises (0: none): the exception is not caught, the
\* figures saved before it stay.
VisualizationPlot ==
    /\ script = "visualization" /\ pc = "plot"
    /\ LET jobs == PlotJobs(mem.df)
       IN  \E fail \in 0..Len(jobs) :
             IF fail = 0
             THEN /\ files' = SavedFigures(jobs, Len(jobs))
                  /\ log' = log \o SavedLines(Len(jobs)) \o <<"INFO">>
                  /\ pc' = "exit" /\ status' = 0
             ELSE /\ files' = SavedFigures(jobs, fail - 1)
                  /\ log' = log \o SavedLines(fail - 1)
                  /\ pc' = "exit" /\ status' = 1
    /\ UNCHANGED <<script, args, input, mem>>

\* data_exploration.py main, lines 42-54: the existence check and read_csv
ExplorationLoad ==
    /\ script = "data_exploration" /\ pc = "start"
    /\ IF InputMissing(args)
       THEN /\ pc' = "exit" /\ status' = 1
            /\ log' = Append(log, "ERROR")
            /\ mem' = mem
       ELSE /\ pc' = "report" /\ status' = status
            /\ log' = Append(log, "INFO")
            /\ mem' = [df |-> input]
    /\ UNCHANGED <<script, args, input, files>>

\* data_exploration.py main, lines 56-112: the printed report
ExplorationReport ==
    /\ script = "data_exploration" /\ pc = "report"
    /\ log' = log \o ExplorationReportLines(mem.df)
    /\ pc' = "exit" /\ status' = 0
    /\ UNCHANGED <<script, args, input, mem, files>>

NextFigures == VisualizationLoad \/ VisualizationPlot \/ ExplorationLoad \/ ExplorationReport

SpecFigures == InitFigures /\ [][NextFigures]_vars

----------------------------------------------------------------------------
(* The seven analysis scripts that take --input, side by side               *)

AnalysisScripts ==
    {"outlier", "class_stats", "numeric_stats", "normality_test",
     "mann_whitney_test", "visualization", "data_exploration"}

InputCells == 2

InputRows == 1

\* what read_csv returns to each script
InputTables(name) ==
    CASE name = "outlier" -> OutlierTables(InputCells)
      [] name = "class_stats" -> TypedTables(ClassLayouts, InputRows)
      [] name = "numeric_stats" -> TypedTables(NumericLayouts, InputRows)
      [] name \in {"normality_test", "mann_whitney_test"} -> TestTables(InputCells)
      [] OTHER -> FigureTables(FigureRows)

\* the table of a run whose input does not exist: nothing is read
NoInput(name) ==
    IF name \in {"class_stats", "numeric_stats"}
    THEN [n |-> 0, columns |-> <<>>, dtype |-> <<>>, col |-> <<>>]
    ELSE NoTable

InitInput ==
    /\ script \in AnalysisScripts
    /\ pc = "start"
    /\ \E ex \in BOOLEAN :
         IF script = "outlier"
         THEN \E k2 \in IqrK2 : args = [input_exists |-> ex, iqr_k2 |-> k2]
         ELSE args = [input_exists |-> ex]
    /\ IF args.input_exists THEN input \in InputTables(script) ELSE input = NoInput(script)
    /\ mem = NoMem
    /\ files = NoFiles
    /\ log = <<>>
    /\ status = Running

NextInput == NextOutlier \/ NextClass \/ NextTests \/ NextNumeric \/ NextFigures

SpecInput == InitInput /\ [][NextInput]_vars

----------------------------------------------------------------------------
(* Claims about outlier.py                                                 *)

Detected == script = "outlier" /\ pc \in {"save", "exit"} /\ "iqr_masks" \in DOMAIN mem

Saved == script = "outlier" /\ pc = "exit" /\ DOMAIN files # {}

\* the quartiles (times 4) of the non-missing values of a column
Q1x4(s) == Quantile4(SortAsc(NonMissing(s)), 1)
Q3x4(s) == Quantile4(SortAsc(NonMissing(s)), 3)
IQRx4(s) == Q3x4(s) - Q1x4(s)
HasValues(s) == NonMissing(s) # <<>>

\* v is non-missing and lies outside [Q1 - k*IQR, Q3 + k*IQR]
OutsideInterval(v, s, k2) ==
    /\ v # NaN
    /\ \/ 8 * v < 2 * Q1x4(s) - k2 * IQRx4(s)
       \/ 8 * v > 2 * Q3x4(s) + k2 * IQRx4(s)

\* v is non-missing and equal to one of the two bounds
OnBound(v, s, k2) ==
    /\ v # NaN
    /\ \/ 8 * v = 2 * Q1x4(s) - k2 * IQRx4(s)
       \/ 8 * v = 2 * Q3x4(s) + k2 * IQRx4(s)

\* C1 (as stated): in every detected column a row is flagged if and only if its
\* value is non-missing and lies outside [Q1 - k*IQR, Q3 + k*IQR].
C1_FlaggedIffOutside ==
    Detected =>
        \A c \in Range(mem.continuous_cols) : \A i \in 1..mem.df.n :
            mem.iqr_masks[c][i] <=>
                (HasValues(mem.df.col[c]) /\ OutsideInterval(mem.df.col[c][i], mem.df.col[c], args.iqr_k2))

\* C1 (amended): the equivalence holds in every detected column whose IQR exists
\* and is not zero; a value equal to a bound is not flagged; in a column whose
\* IQR is zero or does not exist (no non-missing value) no row is flagged.
C1_FlaggedIffOutsideWhenIqrNonZero ==
    Detected =>
        \A c \in Range(mem.continuous_cols) :
            LET s == mem.df.col[c]
            IN  IF HasValues(s) /\ IQRx4(s) # 0
                THEN \A i \in 1..mem.df.n :
                        /\ mem.iqr_masks[c][i] <=> OutsideInterval(s[i], s, args.iqr_k2)
                        /\ OnBound(s[i], s, args.iqr_k2) => ~mem.iqr_masks[c][i]
                ELSE \A i \in 1..mem.df.n : ~mem.iqr_masks[c][i]

\* C1 witness: a detected column with a non-zero IQR holding a flagged row, a row
\* whose value equals a bound and is not flagged, and a missing row.
C1_Witness ==
    /\ Detected
    /\ \E c \in Range(mem.continuous_cols) :
        LET s == mem.df.col[c]
        IN  /\ HasValues(s) /\ IQRx4(s) # 0
            /\ \E i \in 1..mem.df.n : mem.iqr_masks[c][i]
            /\ \E i \in 1..mem.df.n : OnBound(s[i], s, args.iqr_k2) /\ ~mem.iqr_masks[c][i]
            /\ \E i \in 1..mem.df.n : s[i] = NaN

FlaggedFile == files["outliers_flagged.csv"]

IsFlagCell(v) == v \in {0, 1}

\* C2 (as stated): outliers_flagged.csv holds the input rows, every input column
\* with its values unchanged, and in addition only the 0/1 flag columns, whatever
\* the names of the input columns.
C2_FlaggedCopyKeepsInput ==
    Saved =>
        LET flags == {FlagName(c) : c \in Range(mem.continuous_cols)} \cup {AnyFlag}
        IN  /\ FlaggedFile.n = input.n
            /\ DOMAIN FlaggedFile.col = (DOMAIN input.col) \cup flags
            /\ \A name \in DOMAIN input.col : FlaggedFile.col[name] = input.col[name]
            /\ \A name \in flags : \A i \in 1..input.n : IsFlagCell(FlaggedFile.col[name][i])

SummaryFile == files["outliers_summary.csv"]
IndicesFile == files["outliers_indices.csv"]

RecordsOf(c) == {j \in 1..Len(IndicesFile) : IndicesFile[j].column = c}

\* C10: for every detected column the summary count, the number of index
\* records and the number of rows flagged 1 agree, and the recorded row indices
\* are exactly the indices of the flagged rows, each listed once.
C10_OutputsAgree ==
    Saved =>
        \A c \in Range(mem.continuous_cols) :
            LET flaggedRows == {i \in 1..FlaggedFile.n : FlaggedFile.col[FlagName(c)][i] = 1}
                summaryRows == {j \in 1..Len(SummaryFile) : SummaryFile[j].column = c}
            IN  /\ Cardinality(summaryRows) = 1
                /\ \A j \in summaryRows : SummaryFile[j].n_outliers = Cardinality(flaggedRows)
                /\ Cardinality(RecordsOf(c)) = Cardinality(flaggedRows)
                /\ {IndicesFile[j].row_index : j \in RecordsOf(c)} = {i - 1 : i \in flaggedRows}

\* C10 witness: saved outputs with two detected columns, one flagging a row that
\* is not the first and the other flagging none.
C10_Witness ==
    /\ Saved
    /\ \E c, d \in Range(mem.continuous_cols) :
        /\ c # d
        /\ \E j \in RecordsOf(c) : IndicesFile[j].row_index > 0
        /\ RecordsOf(d) = {}

\* a recorded bound is a finite number
Finite(b8) == b8 # Inf /\ b8 # -Inf

\* the column has no non-missing value, or its IQR is zero
NoIqr(s) == ~HasValues(s) \/ IQRx4(s) = 0

\* the bounds dictionary written to outliers_meta.json, once written
MetaBounds == files["outliers_meta.json"].iqr_bounds

\* C11 (as stated), for the masks and a bounds dictionary: a column without a
\* non-zero IQR has no flagged row and both bounds NaN; every other column has
\* two finite bounds, with lower <= upper when k >= 0.
BoundsAsStated(masks, bounds) ==
    \A c \in Range(mem.continuous_cols) :
        LET s == mem.df.col[c]
        IN  IF NoIqr(s)
            THEN /\ \A i \in 1..mem.df.n : ~masks[c][i]
                 /\ bounds[c].nan
            ELSE /\ ~bounds[c].nan
                 /\ Finite(bounds[c].low8) /\ Finite(bounds[c].high8)
                 /\ args.iqr_k2 >= 0 => bounds[c].low8 <= bounds[c].high8

\* C11 (as stated): after detection, and in outliers_meta.json after the
\* save, a column whose IQR is zero or cannot be computed has no flagged row and
\* NaN bounds, whatever k; every other column has finite bounds, lower <= upper
\* when k >= 0.
C11_BoundsNaNOrFinite ==
    /\ Detected => BoundsAsStated(mem.iqr_masks, mem.iqr_bounds)
    /\ Saved => BoundsAsStated(mem.iqr_masks, MetaBounds)

\* C11 (amended), for the masks and a bounds dictionary: the bounds of a column
\* with a non-zero IQR are finite for a finite k only; for k = inf they are -inf
\* and +inf and no row of the column is flagged.
BoundsAmended(masks, bounds) ==
    \A c \in Range(mem.continuous_cols) :
        LET s == mem.df.col[c]
        IN  IF NoIqr(s)
            THEN /\ \A i \in 1..mem.df.n : ~masks[c][i]
                 /\ bounds[c].nan
            ELSE /\ ~bounds[c].nan
                 /\ IF args.iqr_k2 = Inf
                    THEN /\ bounds[c].low8 = -Inf /\ bounds[c].high8 = Inf
                         /\ \A i \in 1..mem.df.n : ~masks[c][i]
                    ELSE /\ Finite(bounds[c].low8) /\ Finite(bounds[c].high8)
                         /\ args.iqr_k2 >= 0 => bounds[c].low8 <= bounds[c].high8

\* C11 (amended): after detection, and in outliers_meta.json after the save, a
\* column whose IQR is zero or cannot be computed has no flagged row and NaN
\* bounds, whatever k; every other column has, for a finite k, finite bounds
\* with lower <= upper when k >= 0, and for k = inf the bounds -inf and +inf.
C11_BoundsNaNOrFiniteForFiniteK ==
    /\ Detected => BoundsAmended(mem.iqr_masks, mem.iqr_bounds)
    /\ Saved => BoundsAmended(mem.iqr_masks, MetaBounds)

\* C11 witness: a saved run with k = 1.5 over a column whose values are all
\* equal (IQR zero, NaN bounds) and a column with a non-zero IQR and two finite
\* bounds, lower < upper.
C11_Witness ==
    /\ Saved /\ args.iqr_k2 = 3
    /\ \E c, d \in Range(mem.continuous_cols) :
        /\ HasValues(mem.df.col[c]) /\ IQRx4(mem.df.col[c]) = 0
        /\ MetaBounds[c].nan
        /\ ~NoIqr(mem.df.col[d])
        /\ ~MetaBounds[d].nan
        /\ MetaBounds[d].low8 < MetaBounds[d].high8

----------------------------------------------------------------------------
(* Claims about export_data.py                                             *)

ExportExited == script = "export_data" /\ pc = "exit"

\* the run wrote the file (what an earlier run left is not counted)
Written(name) == name \in DOMAIN files /\ files[name] # Old

DataExists == input.data.kind # "none"
FeaturesExist == DataExists /\ input.data.features.kind # "none"
TargetsExist == DataExists /\ input.data.targets.kind # "none"
MetadataExists == input.metadata.kind = "dict"

\* C3 (as stated): a written combined.csv holds every feature column with its
\* feature values and every target column with its target values, a colliding
\* target column under "<name>_target": no column is overwritten or lost.
C3_CombinedKeepsEveryColumn ==
    (ExportExited /\ FeaturesExist /\ TargetsExist /\ Written("combined.csv")) =>
        LET F == input.data.features.cols
            T == ToFrame(input.data.targets).cols
            C == files["combined.csv"].cols
        IN  /\ \A c \in DOMAIN F : c \in DOMAIN C /\ C[c] = F[c]
            /\ \A c \in DOMAIN T :
                 LET nm == IF c \in DOMAIN F THEN c \o <<TargetSuffix>> ELSE c
                 IN  nm \in DOMAIN C /\ C[nm] = T[c]
            /\ Cardinality(DOMAIN C) = Cardinality(DOMAIN F) + Cardinality(DOMAIN T)

Diagnostics ==
    {"no ds.data", "no features, no targets", "no combined.csv: features or targets missing"}

DiagnosticLogged == \E i \in 1..Len(log) : log[i] \in Diagnostics

\* C4 (as stated): after a successful fetch the run ends with the completion
\* log and status 0, and every output whose source is absent is not written
\* and a diagnostic is logged.
C4_AbsentSourceIsSkippedAndLogged ==
    (ExportExited /\ mem.fetched) =>
        /\ status = 0
        /\ log[Len(log)] = "done"
        /\ ~MetadataExists => (~Written("metadata.json") /\ DiagnosticLogged)
        /\ ~FeaturesExist => (~Written("features.csv") /\ DiagnosticLogged)
        /\ ~TargetsExist => (~Written("targets.csv") /\ DiagnosticLogged)
        /\ ~(FeaturesExist /\ TargetsExist) => (~Written("combined.csv") /\ DiagnosticLogged)

\* C5 (as stated): features.csv is written only if features exist, targets.csv
\* only if targets exist, and combined.csv if and only if both exist, whatever
\* exceptions the steps on features and targets raised.
C5_CombinedIffBothExist ==
    (ExportExited /\ mem.exported) =>
        /\ Written("features.csv") => FeaturesExist
        /\ Written("targets.csv") => TargetsExist
        /\ Written("combined.csv") <=> (FeaturesExist /\ TargetsExist)

\* C5 (amended): features.csv is written only if features exist, targets.csv
\* only if targets exist, combined.csv only if both exist; when both exist,
\* combined.csv is written exactly when neither the conversion of targets nor
\* the combine-and-write step raised, whether or not writing features.csv or
\* targets.csv raised.
C5_CombinedIffBothExistAndNoRaise ==
    (ExportExited /\ mem.exported) =>
        /\ Written("features.csv") => FeaturesExist
        /\ Written("targets.csv") => TargetsExist
        /\ Written("combined.csv") <=>
              /\ FeaturesExist /\ TargetsExist
              /\ "targets conversion" \notin mem.raised
              /\ "combine" \notin mem.raised

\* C5 witness: both sources exist, writing features.csv and writing targets.csv
\* both raised, and combined.csv was written.
C5_Witness ==
    /\ ExportExited /\ mem.exported
    /\ FeaturesExist /\ TargetsExist
    /\ {"features.to_csv", "targets.to_csv"} \subseteq mem.raised
    /\ Written("combined.csv")
    /\ ~Written("features.csv") /\ ~Written("targets.csv")

\* C6: when the output directory exists and --overwrite is not given the run
\* exits with status 1 right after the check: nothing is fetched and the
\* directory is as before; a run changes an existing directory only with
\* --overwrite.
C6_ExistingDirNeedsOverwrite ==
    script = "export_data" =>
        /\ (args.outdir_exists /\ ~args.overwrite /\ pc # "start") =>
              /\ pc = "exit" /\ status = 1
              /\ ~mem.fetched
              /\ log = <<"start", "ERROR dir exists">>
              /\ files = args.dir0
        /\ (args.outdir_exists /\ files # args.dir0) => args.overwrite

\* C6 witness: a run on a directory left by an earlier run, without
\* --overwrite, has exited.
C6_Witness ==
    /\ ExportExited
    /\ args.outdir_exists /\ ~args.overwrite
    /\ args.dir0 # NoFiles
    /\ status = 1

----------------------------------------------------------------------------
(* Claims about class_stats.py                                             *)

Classified == script = "class_stats" /\ "categorical_cols" \in DOMAIN mem

\* numeric in the sense of pandas (is_numeric_dtype): bool counts as numeric.
\* Read the other way (bool as non-numeric) the claim asks the same of a bool
\* column, which has at most two distinct values.
IsNumericDtype(d) == d \in {"int64", "float64", "bool"}

\* C7 (as stated): a column other than the target is reported as categorical if
\* and only if it is non-numeric, or numeric with at most 10 distinct
\* non-missing values; the target column is not reported.
C7_CategoricalIffNonNumericOrFewValues ==
    Classified =>
        /\ \A c \in Range(mem.df.columns) \ {TARGET_COL} :
              c \in Range(mem.categorical_cols) <=>
                 \/ ~IsNumericDtype(mem.df.dtype[c])
                 \/ NUnique(mem.df.col[c]) <= MAX_CATEGORIES
        /\ TARGET_COL \notin Range(mem.categorical_cols)

----------------------------------------------------------------------------
(* Claims about normality_test.py and mann_whitney_test.py                 *)

Tested == script \in {"normality_test", "mann_whitney_test"} /\ "results_df" \in DOMAIN mem

\* C8: in every result row the verdict is decided by the row's p-value and the
\* threshold 0.05 alone: Normality is true exactly when p > 0.05, Significant
\* exactly when p < 0.05 (both false at p = 0.05); the verdict of the CSV row
\* and the Yes/No of the LaTeX row of the same variable agree.
C8_VerdictByThreshold ==
    Tested =>
        /\ script = "normality_test" =>
              LET csv == files["normality_test.csv"]
              IN  /\ Len(csv) = Len(mem.results_df) /\ Len(mem.latex_table) = Len(csv)
                  /\ \A j \in 1..Len(csv) :
                        LET p == mem.results_df[j].pvalue
                        IN  /\ csv[j].Variable = mem.results_df[j].Variable
                            /\ mem.latex_table[j].Variable = csv[j].Variable
                            /\ csv[j].Normality <=> (p # NaN /\ p > 5000)
                            /\ (mem.latex_table[j].verdict = "Yes") <=> csv[j].Normality
                            /\ mem.latex_table[j].verdict \in {"Yes", "No"}
        /\ script = "mann_whitney_test" =>
              LET csv == files["mann_whitney_test.csv"]
              IN  /\ Len(csv) = Len(mem.results_df) /\ Len(mem.latex_table) = Len(csv)
                  /\ \A j \in 1..Len(csv) :
                        LET p == mem.results_df[j].pvalue
                        IN  /\ csv[j].Variable = mem.results_df[j].Variable
                            /\ mem.latex_table[j].Variable = csv[j].Variable
                            /\ csv[j].Significant <=> (p # NaN /\ p < 5000)
                            /\ (mem.latex_table[j].verdict = "Yes") <=> csv[j].Significant
                            /\ mem.latex_table[j].verdict \in {"Yes", "No"}

\* C8 witness: normality_test.py has written two rows, one with p = 0.05 and
\* the verdict No, one with p = 0.05004 (written as 5.00e-02) and the verdict Yes.
C8_Witness ==
    /\ Tested /\ script = "normality_test"
    /\ \E i, j \in 1..Len(mem.results_df) :
          /\ mem.results_df[i].pvalue = 5000
          /\ mem.latex_table[i].verdict = "No"
          /\ mem.results_df[j].pvalue = 5004
          /\ files["normality_test.csv"][j].pvalue = 5000
          /\ mem.latex_table[j].verdict = "Yes"

\* mann_whitney_test.py has ended after reading its input
MannWhitneyEnded == script = "mann_whitney_test" /\ pc = "exit" /\ "df" \in DOMAIN mem

\* the rows of mann_whitney_test.csv; none when the file was not written
ResultRows ==
    IF "mann_whitney_test.csv" \in DOMAIN files THEN files["mann_whitney_test.csv"] ELSE <<>>

\* BMI, MentHlth, PhysHlth: 1, 2, 3
VarRank(v) == IF v = <<"BMI">> THEN 1 ELSE IF v = <<"MentHlth">> THEN 2 ELSE 3

\* the positions of the rows with Diabetes_binary = g and a value of v
GroupPositions(df, v, g) ==
    {i \in 1..df.n : /\ GROUP_COL \in DOMAIN df.col
                     /\ df.col[GROUP_COL][i] = g
                     /\ df.col[v][i] # NaN}

\* sample holds exactly the values of v at the positions P, in row order
IsSampleOf(sample, df, v, P) ==
    /\ Len(sample) = Cardinality(P)
    /\ \E pos \in [1..Len(sample) -> P] :
          /\ \A a, b \in 1..Len(sample) : a < b => pos[a] < pos[b]
          /\ \A a \in 1..Len(sample) : sample[a] = df.col[v][pos[a]]

\* C13: when mann_whitney_test.py has ended, its result rows name variables
\* among BMI, MentHlth, PhysHlth that are columns of the input, in that fixed
\* order and at most once each; a variable of the input has a row if and only
\* if the rows with Diabetes_binary = 0 and the rows with Diabetes_binary = 1
\* both hold a non-missing value of it; and the two samples compared for a row
\* are exactly the non-missing values of the rows of group 0 and of group 1, so
\* that a row with another or a missing Diabetes_binary is in neither.
C13_RowsAndGroups ==
    MannWhitneyEnded =>
        LET df == input
            present == {v \in Range(CONTINUOUS_VARS) : v \in DOMAIN df.col}
        IN  /\ \A j \in 1..Len(ResultRows) : ResultRows[j].Variable \in present
            /\ \A j, k \in 1..Len(ResultRows) :
                  j < k => VarRank(ResultRows[j].Variable) < VarRank(ResultRows[k].Variable)
            /\ \A v \in present :
                  (\E j \in 1..Len(ResultRows) : ResultRows[j].Variable = v)
                  <=> (GroupPositions(df, v, 0) # {} /\ GroupPositions(df, v, 1) # {})
            /\ \A j \in 1..Len(ResultRows) :
                  LET v == ResultRows[j].Variable
                  IN  /\ IsSampleOf(mem.samples[v].data0, df, v, GroupPositions(df, v, 0))
                      /\ IsSampleOf(mem.samples[v].data1, df, v, GroupPositions(df, v, 1))

\* C13 witness: a written row for BMI over a table in which one row has the
\* group 0, one the group 1 and one another or no group, each with a BMI; the
\* third row's BMI is in neither sample.
C13_Witness ==
    /\ MannWhitneyEnded /\ Len(ResultRows) = 1
    /\ ResultRows[1].Variable = <<"BMI">>
    /\ input.n = 3
    /\ \A i \in 1..3 : input.col[<<"BMI">>][i] # NaN
    /\ \E i \in 1..3 : input.col[GROUP_COL][i] \notin {0, 1}
    /\ Len(mem.samples[<<"BMI">>].data0) + Len(mem.samples[<<"BMI">>].data1) = 2

\* C13 witness of the order: two written rows, MentHlth before PhysHlth
C13_OrderReached ==
    /\ MannWhitneyEnded /\ Len(ResultRows) = 2
    /\ ResultRows[1].Variable = <<"MentHlth">> /\ ResultRows[2].Variable = <<"PhysHlth">>

----------------------------------------------------------------------------
(* Claims about numeric_stats.py                                           *)

NumericDone == script = "numeric_stats" /\ "latex_table" \in DOMAIN mem

\* C9 (as stated): the printed LaTeX table has one row per variable of
\* numeric_stats.csv and one column per statistic of the CSV (Mean, Median,
\* Mode, Std, Var, Range, Skew, Kurt), each cell the CSV value rounded to two
\* decimals.
C9_LatexShowsEveryStatistic ==
    NumericDone =>
        LET csv == files["numeric_stats.csv"]
            tex == mem.latex_table
        IN  /\ tex.header = csv.header
            /\ Len(tex.rows) = Len(csv.rows)
            /\ \A j \in 1..Len(csv.rows) :
                  /\ tex.rows[j].Variable = csv.rows[j].Variable
                  /\ tex.rows[j].cells =
                        [k \in 1..Len(csv.rows[j].values) |-> Round2(csv.rows[j].values[k])]

----------------------------------------------------------------------------
(* Claims about the input of the analysis scripts                          *)

\* the run has read its input: df is assigned
InputRead == "df" \in DOMAIN mem

\* C12: in each of the seven analysis scripts, a run whose input file does not
\* exist never reads the input and never writes a file; it ends in its first
\* step, with exit status 1 and the error message as its only printed line.
C12_MissingInputStopsTheRun ==
    (script \in AnalysisScripts /\ ~args.input_exists) =>
        /\ ~InputRead
        /\ files = NoFiles
        /\ pc \in {"start", "exit"}
        /\ pc = "start" => status = Running /\ log = <<>>
        /\ pc = "exit" => status = 1 /\ log = <<"ERROR">>

\* C12 witness: visualization.py has ended on a missing input, with status 1,
\* the error message and no figure.
C12_Witness ==
    /\ script = "visualization" /\ ~args.input_exists
    /\ pc = "exit" /\ status = 1
    /\ log = <<"ERROR">> /\ files = NoFiles

====
